---- MODULE Spec2Model ----
(***************************************************************************)
(* Block Blast solver: grid utilities (utils.py), block shapes             *)
(* (block_shapes.py) and the move search (solver.py).                      *)
(*                                                                         *)
(* A grid is a function from cells <<row, col>> to BOOLEAN (the numpy      *)
(* boolean array), a cell list is a sequence of <<row, col>> pairs (the    *)
(* Python list of tuples).  Scores are Python floats that are exact        *)
(* multiples of 1/16 (the only fraction is (1 - k/64) * 100), so a score   *)
(* is carried as the integer 16 * score.                                   *)
(***************************************************************************)
EXTENDS Integers, Sequences, FiniteSets, TLC

\* ------------------------------------------------------------ config.py
GRID_SIZE == 8
SCORE_ROW_CLEAR == 100
SCORE_HOLE_PENALTY == -10
SCORE_COVERAGE == 1

Idx == 0 .. (GRID_SIZE - 1)
Cells == Idx \X Idx

\* np.zeros((8, 8), dtype=bool)
EmptyGrid == [x \in Cells |-> FALSE]

\* Python tuple comparison (r1, c1) < (r2, c2)
TupleLess(a, b) == a[1] < b[1] \/ (a[1] = b[1] /\ a[2] < b[2])

\* ------------------------------------------------------------- utils.py

\* (variant) the bounds check alone, the occupancy check left out
RECURSIVE CanPlaceFromBoundsOnly(_, _, _, _)
CanPlaceFromBoundsOnly(grid, piece_cells, position, i) ==
    IF i > Len(piece_cells) THEN TRUE
    ELSE LET new_row == position[1] + piece_cells[i][1]
             new_col == position[2] + piece_cells[i][2]
         IN  IF ~(0 <= new_row /\ new_row < GRID_SIZE /\ 0 <= new_col /\ new_col < GRID_SIZE)
             THEN FALSE
             ELSE CanPlaceFromBoundsOnly(grid, piece_cells, position, i + 1)

\* can_place_piece: the loop over piece_cells, first failure returns False
RECURSIVE CanPlaceFrom(_, _, _, _)
CanPlaceFrom(grid, piece_cells, position, i) ==
    IF i > Len(piece_cells) THEN TRUE
    ELSE LET new_row == position[1] + piece_cells[i][1]
             new_col == position[2] + piece_cells[i][2]
         IN  IF ~(0 <= new_row /\ new_row < GRID_SIZE /\ 0 <= new_col /\ new_col < GRID_SIZE)
             THEN FALSE
             ELSE IF grid[<<new_row, new_col>>]
             THEN FALSE
             ELSE CanPlaceFrom(grid, piece_cells, position, i + 1)

can_place_piece(grid, piece_cells, position) ==
    CanPlaceFrom(grid, piece_cells, position, 1)

\* validate_grid, on what the object is: a.ndarray tells whether it is a
\* numpy array, a.shape and a.dtype are the array's
validate_grid(a) ==
    IF ~a.ndarray THEN FALSE
    ELSE IF a.shape # <<GRID_SIZE, GRID_SIZE>> THEN FALSE
    ELSE IF a.dtype # "bool" /\ a.dtype # "int" THEN FALSE
    ELSE TRUE

\* numpy index on one axis: -8..-1 wrap around, 0..7 are themselves,
\* anything else raises IndexError (here -1)
NpIndex(i) ==
    IF 0 <= i /\ i < GRID_SIZE THEN i
    ELSE IF -GRID_SIZE <= i /\ i < 0 THEN i + GRID_SIZE
    ELSE -1

\* grid.copy(): a new array with the same contents
Copy(grid) == grid

\* place_piece's loop: set each absolute cell of new_grid; err is the
\* IndexError raised by new_grid[new_row, new_col] = True
RECURSIVE PlaceFrom(_, _, _, _)
PlaceFrom(new_grid, piece_cells, position, i) ==
    IF i > Len(piece_cells) THEN [err |-> FALSE, grid |-> new_grid]
    ELSE LET new_row == NpIndex(position[1] + piece_cells[i][1])
             new_col == NpIndex(position[2] + piece_cells[i][2])
         IN  IF new_row = -1 \/ new_col = -1
             THEN [err |-> TRUE, grid |-> new_grid]
             ELSE PlaceFrom([new_grid EXCEPT ![<<new_row, new_col>>] = TRUE],
                            piece_cells, position, i + 1)

\* (variant) the copy left out: the loop writes into the caller's array
place_piece_in_place(grid, piece_cells, position) ==
    LET done == PlaceFrom(grid, piece_cells, position, 1)
    IN  [err |-> done.err, grid |-> done.grid, arg |-> done.grid, new |-> FALSE]

\* place_piece: .grid is the returned array (meaningful when no error),
\* .arg the contents of the caller's array when the call ends, .new tells
\* that the returned array is an object made by the call (the copy) and not
\* the caller's array
place_piece(grid, piece_cells, position) ==
    LET done == PlaceFrom(Copy(grid), piece_cells, position, 1)
    IN  [err |-> done.err, grid |-> done.grid, arg |-> grid, new |-> TRUE]

\* (variant) a row counts as complete as soon as one of its cells is set
RECURSIVE ClearRowsAny(_, _, _)
ClearRowsAny(new_grid, lines_cleared, row) ==
    IF row = GRID_SIZE THEN [grid |-> new_grid, lines |-> lines_cleared]
    ELSE IF \E c \in Idx : new_grid[<<row, c>>]
         THEN ClearRowsAny([x \in Cells |-> IF x[1] = row THEN FALSE ELSE new_grid[x]],
                           lines_cleared + 1, row + 1)
         ELSE ClearRowsAny(new_grid, lines_cleared, row + 1)

\* (variant) the row loop stops after the first complete row
RECURSIVE ClearRowsFirstOnly(_, _, _)
ClearRowsFirstOnly(new_grid, lines_cleared, row) ==
    IF row = GRID_SIZE THEN [grid |-> new_grid, lines |-> lines_cleared]
    ELSE IF \A c \in Idx : new_grid[<<row, c>>]
         THEN [grid |-> [x \in Cells |-> IF x[1] = row THEN FALSE ELSE new_grid[x]],
               lines |-> lines_cleared + 1]
         ELSE ClearRowsFirstOnly(new_grid, lines_cleared, row + 1)

\* clear_complete_lines, first loop: rows of new_grid, in order
RECURSIVE ClearRowsFrom(_, _, _)
ClearRowsFrom(new_grid, lines_cleared, row) ==
    IF row = GRID_SIZE THEN [grid |-> new_grid, lines |-> lines_cleared]
    ELSE IF \A c \in Idx : new_grid[<<row, c>>]
         THEN ClearRowsFrom([x \in Cells |-> IF x[1] = row THEN FALSE ELSE new_grid[x]],
                            lines_cleared + 1, row + 1)
         ELSE ClearRowsFrom(new_grid, lines_cleared, row + 1)

\* (variant) the column loop stops one column short of the last
RECURSIVE ClearColsFromShort(_, _, _)
ClearColsFromShort(new_grid, lines_cleared, col) ==
    IF col = GRID_SIZE - 1 THEN [grid |-> new_grid, lines |-> lines_cleared]
    ELSE IF \A r \in Idx : new_grid[<<r, col>>]
         THEN ClearColsFromShort([x \in Cells |-> IF x[2] = col THEN FALSE ELSE new_grid[x]],
                                 lines_cleared + 1, col + 1)
         ELSE ClearColsFromShort(new_grid, lines_cleared, col + 1)

\* clear_complete_lines, second loop: columns of the same new_grid
RECURSIVE ClearColsFrom(_, _, _)
ClearColsFrom(new_grid, lines_cleared, col) ==
    IF col = GRID_SIZE THEN [grid |-> new_grid, lines |-> lines_cleared]
    ELSE IF \A r \in Idx : new_grid[<<r, col>>]
         THEN ClearColsFrom([x \in Cells |-> IF x[2] = col THEN FALSE ELSE new_grid[x]],
                            lines_cleared + 1, col + 1)
         ELSE ClearColsFrom(new_grid, lines_cleared, col + 1)

\* (variant) the lines are cleared in the caller's array, without the copy
clear_complete_lines_in_place(grid) ==
    LET afterRows == ClearRowsFrom(grid, 0, 0)
        afterCols == ClearColsFrom(afterRows.grid, afterRows.lines, 0)
    IN  [grid |-> afterCols.grid, lines |-> afterCols.lines, arg |-> afterCols.grid,
         new |-> FALSE]

\* clear_complete_lines: .grid and .lines are the returned pair, .arg the
\* contents of the caller's array when the call ends, .new as in place_piece
clear_complete_lines(grid) ==
    LET afterRows == ClearRowsFrom(Copy(grid), 0, 0)
        afterCols == ClearColsFrom(afterRows.grid, afterRows.lines, 0)
    IN  [grid |-> afterCols.grid, lines |-> afterCols.lines, arg |-> grid, new |-> TRUE]

\* (variant) an empty cell is a hole when occupied / total >= 0.5
IsHoleFromHalf(grid, row, col) ==
    /\ ~grid[<<row, col>>]
    /\ LET nbrs == {d \in ({-1, 0, 1} \X {-1, 0, 1}) \ {<<0, 0>>} :
                       /\ 0 <= row + d[1] /\ row + d[1] < GRID_SIZE
                       /\ 0 <= col + d[2] /\ col + d[2] < GRID_SIZE}
       IN  2 * Cardinality({d \in nbrs : grid[<<row + d[1], col + d[2]>>]})
               >= Cardinality(nbrs)

\* count_holes: an empty cell is a hole when occupied / total > 0.5
NeighborOffsets == ({-1, 0, 1} \X {-1, 0, 1}) \ {<<0, 0>>}

IsHole(grid, row, col) ==
    /\ ~grid[<<row, col>>]
    /\ LET nbrs == {d \in NeighborOffsets :
                       /\ 0 <= row + d[1] /\ row + d[1] < GRID_SIZE
                       /\ 0 <= col + d[2] /\ col + d[2] < GRID_SIZE}
           total_neighbors == Cardinality(nbrs)
           occupied_neighbors ==
               Cardinality({d \in nbrs : grid[<<row + d[1], col + d[2]>>]})
       IN  total_neighbors > 0 /\ 2 * occupied_neighbors > total_neighbors

count_holes(grid) == Cardinality({x \in Cells : IsHole(grid, x[1], x[2])})

\* np.sum(grid): the number of occupied cells (coverage is this over 64)
Occupied(grid) == Cardinality({x \in Cells : grid[x]})

\* get_all_valid_placements, the inner loop: the anchors of one row
RECURSIVE ValidInRow(_, _, _, _)
ValidInRow(grid, piece_cells, row, col) ==
    IF col = GRID_SIZE THEN <<>>
    ELSE IF can_place_piece(grid, piece_cells, <<row, col>>)
         THEN <<<<row, col>>>> \o ValidInRow(grid, piece_cells, row, col + 1)
         ELSE ValidInRow(grid, piece_cells, row, col + 1)

\* (variant) the row loop stops one row short of the last
RECURSIVE ValidFromShort(_, _, _)
ValidFromShort(grid, piece_cells, row) ==
    IF row = GRID_SIZE - 1 THEN <<>>
    ELSE ValidInRow(grid, piece_cells, row, 0) \o ValidFromShort(grid, piece_cells, row + 1)

\* get_all_valid_placements, the outer loop over the rows
RECURSIVE ValidFrom(_, _, _)
ValidFrom(grid, piece_cells, row) ==
    IF row = GRID_SIZE THEN <<>>
    ELSE ValidInRow(grid, piece_cells, row, 0) \o ValidFrom(grid, piece_cells, row + 1)

get_all_valid_placements(grid, piece_cells) == ValidFrom(grid, piece_cells, 0)

\* ------------------------------------------------------ block_shapes.py

\* min(c[0] for c in cells), min(c[1] for c in cells)
MinOf(S) == CHOOSE m \in S : \A x \in S : m <= x

\* sorted(): insert x into an already sorted list, after its equals
RECURSIVE InsertSorted(_, _)
InsertSorted(x, s) ==
    IF s = <<>> THEN <<x>>
    ELSE IF TupleLess(x, Head(s)) THEN <<x>> \o s
    ELSE <<Head(s)>> \o InsertSorted(x, Tail(s))

\* (variant) the list left in the order given
Unsorted(s) == s

RECURSIVE Sorted(_)
Sorted(s) == IF s = <<>> THEN <<>> ELSE InsertSorted(Head(s), Sorted(Tail(s)))

\* BlockShape._normalize: shift to minimum row/col 0, then sort
_normalize(cells) ==
    IF cells = <<>> THEN <<>>
    ELSE LET min_row == MinOf({cells[i][1] : i \in 1 .. Len(cells)})
             min_col == MinOf({cells[i][2] : i \in 1 .. Len(cells)})
             normalized == [i \in 1 .. Len(cells) |->
                               <<cells[i][1] - min_row, cells[i][2] - min_col>>]
         IN  Sorted(normalized)

\* BlockShape(cells): the object is identified with its stored cell list
BlockShape(cells) == _normalize(cells)

\* (variant) the quarter turn the other way round: (r, c) to (-c, r)
QuarterTurnBack(cells) == BlockShape([i \in 1 .. Len(cells) |-> <<-cells[i][2], cells[i][1]>>])

rotate_90(cells) == BlockShape([i \in 1 .. Len(cells) |-> <<cells[i][2], -cells[i][1]>>])
rotate_180(cells) == BlockShape([i \in 1 .. Len(cells) |-> <<-cells[i][1], -cells[i][2]>>])
rotate_270(cells) == BlockShape([i \in 1 .. Len(cells) |-> <<-cells[i][2], cells[i][1]>>])
flip_horizontal(cells) == BlockShape([i \in 1 .. Len(cells) |-> <<cells[i][1], -cells[i][2]>>])
flip_vertical(cells) == BlockShape([i \in 1 .. Len(cells) |-> <<-cells[i][1], cells[i][2]>>])

\* (variant) the list starts with the quarter turn, self comes last
OrientationCandidatesSelfLast(cells) ==
    << rotate_90(cells),
       rotate_180(cells),
       rotate_270(cells),
       flip_horizontal(cells),
       flip_vertical(cells),
       rotate_90(flip_horizontal(cells)),
       rotate_180(flip_horizontal(cells)),
       cells >>

\* the eight candidates get_all_orientations builds, in its order
OrientationCandidates(cells) ==
    << cells,
       rotate_90(cells),
       rotate_180(cells),
       rotate_270(cells),
       flip_horizontal(cells),
       flip_vertical(cells),
       rotate_90(flip_horizontal(cells)),
       rotate_180(flip_horizontal(cells)) >>

\* (variant) no de-duplication: every candidate from the i-th on is kept
KeepAll(orientations, i) == SubSeq(orientations, i, Len(orientations))

\* the de-duplication loop: keep the first occurrence of each cell tuple
RECURSIVE Unique(_, _)
Unique(orientations, i) ==
    IF i > Len(orientations) THEN <<>>
    ELSE IF \E j \in 1 .. (i - 1) : orientations[j] = orientations[i]
         THEN Unique(orientations, i + 1)
         ELSE <<orientations[i]>> \o Unique(orientations, i + 1)

get_all_orientations(cells) == Unique(OrientationCandidates(cells), 1)

\* STANDARD_PIECES, in the order of the dictionary
STANDARD_PIECES ==
    << [name |-> "single", cells |-> BlockShape(<< <<0, 0>> >>)],
       [name |-> "domino_h", cells |-> BlockShape(<< <<0, 0>>, <<0, 1>> >>)],
       [name |-> "domino_v", cells |-> BlockShape(<< <<0, 0>>, <<1, 0>> >>)],
       [name |-> "line_3_h", cells |-> BlockShape(<< <<0, 0>>, <<0, 1>>, <<0, 2>> >>)],
       [name |-> "line_3_v", cells |-> BlockShape(<< <<0, 0>>, <<1, 0>>, <<2, 0>> >>)],
       [name |-> "l_3_1", cells |-> BlockShape(<< <<0, 0>>, <<1, 0>>, <<1, 1>> >>)],
       [name |-> "l_3_2", cells |-> BlockShape(<< <<0, 0>>, <<0, 1>>, <<1, 0>> >>)],
       [name |-> "l_3_3", cells |-> BlockShape(<< <<0, 0>>, <<0, 1>>, <<1, 1>> >>)],
       [name |-> "l_3_4", cells |-> BlockShape(<< <<0, 1>>, <<1, 0>>, <<1, 1>> >>)],
       [name |-> "square_4", cells |-> BlockShape(<< <<0, 0>>, <<0, 1>>, <<1, 0>>, <<1, 1>> >>)],
       [name |-> "line_4_h", cells |-> BlockShape(<< <<0, 0>>, <<0, 1>>, <<0, 2>>, <<0, 3>> >>)],
       [name |-> "line_4_v", cells |-> BlockShape(<< <<0, 0>>, <<1, 0>>, <<2, 0>>, <<3, 0>> >>)],
       [name |-> "t_4", cells |-> BlockShape(<< <<0, 0>>, <<0, 1>>, <<0, 2>>, <<1, 1>> >>)],
       [name |-> "l_4_1", cells |-> BlockShape(<< <<0, 0>>, <<1, 0>>, <<2, 0>>, <<2, 1>> >>)],
       [name |-> "l_4_2", cells |-> BlockShape(<< <<0, 0>>, <<1, 0>>, <<2, 0>>, <<0, 1>> >>)],
       [name |-> "z_4_1", cells |-> BlockShape(<< <<0, 0>>, <<0, 1>>, <<1, 1>>, <<1, 2>> >>)],
       [name |-> "z_4_2", cells |-> BlockShape(<< <<0, 1>>, <<0, 2>>, <<1, 0>>, <<1, 1>> >>)],
       [name |-> "line_5_h", cells |-> BlockShape(<< <<0, 0>>, <<0, 1>>, <<0, 2>>, <<0, 3>>, <<0, 4>> >>)],
       [name |-> "line_5_v", cells |-> BlockShape(<< <<0, 0>>, <<1, 0>>, <<2, 0>>, <<3, 0>>, <<4, 0>> >>)],
       [name |-> "plus_5", cells |-> BlockShape(<< <<0, 1>>, <<1, 0>>, <<1, 1>>, <<1, 2>>, <<2, 1>> >>)],
       [name |-> "l_5_1", cells |-> BlockShape(<< <<0, 0>>, <<1, 0>>, <<2, 0>>, <<3, 0>>, <<3, 1>> >>)],
       [name |-> "t_5", cells |-> BlockShape(<< <<0, 0>>, <<0, 1>>, <<0, 2>>, <<1, 1>>, <<2, 1>> >>)] >>

\* find_matching_piece's loop over the entries, from the i-th on: the name of
\* the first entry with an orientation whose cells equal test_cells
RECURSIVE MatchFrom(_, _)
MatchFrom(test_cells, i) ==
    IF i > Len(STANDARD_PIECES) THEN "custom"
    ELSE IF \E orientations \in {get_all_orientations(STANDARD_PIECES[i].cells)} :
                \E j \in 1 .. Len(orientations) : orientations[j] = test_cells
         THEN STANDARD_PIECES[i].name
         ELSE MatchFrom(test_cells, i + 1)

find_matching_piece(cells) == MatchFrom(BlockShape(cells), 1)

\* ------------------------------------------------------------ solver.py

\* F applied to the value of v, with v worked out once
Then(v, F(_)) == CHOOSE r \in {F(x) : x \in {v}} : TRUE

\* _count_empty_groups is run as a machine whose state st holds the visited
\* array, the count `groups`, the position (row, col) of the double loop
\* (row = GRID_SIZE once it is over) and the pending calls of dfs as an explicit
\* list `calls` (next call first); `marks` counts the assignments
\* visited[r, c] = True made so far.

\* (variant) dfs also calls itself on the four diagonal neighbours
DfsStepDiagonal(grid, st) ==
    LET r == Head(st.calls)[1]
        c == Head(st.calls)[2]
    IN  IF r < 0 \/ r >= 8 \/ c < 0 \/ c >= 8
        THEN [st EXCEPT !.calls = Tail(st.calls)]
        ELSE IF st.visited[<<r, c>>] \/ grid[<<r, c>>]
        THEN [st EXCEPT !.calls = Tail(st.calls)]
        ELSE [st EXCEPT !.visited = [st.visited EXCEPT ![<<r, c>>] = TRUE],
                        !.marks = st.marks + 1,
                        !.calls = << <<r + 1, c>>, <<r - 1, c>>, <<r, c + 1>>, <<r, c - 1>>,
                                     <<r + 1, c + 1>>, <<r - 1, c - 1>>,
                                     <<r + 1, c - 1>>, <<r - 1, c + 1>> >>
                                      \o Tail(st.calls)]

\* One step of dfs runs the next call: it returns at once when out of range,
\* visited or occupied, else it marks the cell and makes the four calls
\* (r+1, c), (r-1, c), (r, c+1), (r, c-1) before what was pending.
DfsStep(grid, st) ==
    LET r == Head(st.calls)[1]
        c == Head(st.calls)[2]
    IN  IF r < 0 \/ r >= 8 \/ c < 0 \/ c >= 8
        THEN [st EXCEPT !.calls = Tail(st.calls)]
        ELSE IF st.visited[<<r, c>>] \/ grid[<<r, c>>]
        THEN [st EXCEPT !.calls = Tail(st.calls)]
        ELSE [st EXCEPT !.visited = [st.visited EXCEPT ![<<r, c>>] = TRUE],
                        !.marks = st.marks + 1,
                        !.calls = << <<r + 1, c>>, <<r - 1, c>>, <<r, c + 1>>, <<r, c - 1>> >>
                                      \o Tail(st.calls)]

\* One pass of the double loop, at (row, col): an empty cell not yet visited
\* starts a dfs there and counts one group.
LoopStep(grid, st) ==
    LET row1 == IF st.col = 7 THEN st.row + 1 ELSE st.row
        col1 == IF st.col = 7 THEN 0 ELSE st.col + 1
    IN  IF ~grid[<<st.row, st.col>>] /\ ~st.visited[<<st.row, st.col>>]
        THEN [st EXCEPT !.calls = << <<st.row, st.col>> >>,
                        !.groups = st.groups + 1,
                        !.row = row1, !.col = col1]
        ELSE [st EXCEPT !.row = row1, !.col = col1]

\* the next step: the running dfs first, the loop when no call is pending
GroupsStep(grid, st) ==
    IF st.calls # <<>> THEN DfsStep(grid, st) ELSE LoopStep(grid, st)

\* up to n steps, n a power of two: the first half of them, then the second
\* half (which keeps the evaluator's own recursion shallow)
RECURSIVE GroupsSteps(_, _, _)
GroupsSteps(grid, st, n) ==
    IF st.row = 8 /\ st.calls = <<>> THEN st
    ELSE IF n = 1 THEN GroupsStep(grid, st)
    ELSE Then(GroupsSteps(grid, st, n \div 2),
              LAMBDA st1 : GroupsSteps(grid, st1, n \div 2))

\* visited = np.zeros_like(grid, dtype=bool), groups = 0, and all the steps:
\* 64 passes of the loop and at most 64 + 4 * 64 calls of dfs
GroupsRun(grid) ==
    GroupsSteps(grid, [visited |-> [x \in Cells |-> FALSE], calls |-> << >>, marks |-> 0,
                       groups |-> 0, row |-> 0, col |-> 0], 512)

_count_empty_groups(grid) == GroupsRun(grid).groups

\* (variant) the bonus starts at 7 occupied cells
LineBonusFromSeven(occupied) == IF occupied >= 7 THEN (occupied - 5) * 5 ELSE 0

\* the near-complete bonus of one line with `occupied` cells set
LineBonus(occupied) == IF occupied >= 6 THEN (occupied - 5) * 5 ELSE 0

RECURSIVE SumBonus(_, _, _)
SumBonus(grid, byRow, k) ==
    IF k = 8 THEN 0
    ELSE LET occupied == Cardinality({i \in 0 .. 7 :
                             IF byRow THEN grid[<<k, i>>] ELSE grid[<<i, k>>]})
         IN  LineBonus(occupied) + SumBonus(grid, byRow, k + 1)

\* evaluate_position, as 16 * score
evaluate_position(grid, lines_cleared) ==
    LET holes == count_holes(grid)
        empty_groups == _count_empty_groups(grid)
    IN  16 * (lines_cleared * SCORE_ROW_CLEAR)
        + 16 * (holes * SCORE_HOLE_PENALTY)
        + (((GRID_SIZE * GRID_SIZE - Occupied(grid)) * SCORE_COVERAGE * 100 * 16)
              \div (GRID_SIZE * GRID_SIZE))
        + 16 * SumBonus(grid, TRUE, 0)
        + 16 * SumBonus(grid, FALSE, 0)
        - (IF empty_groups > 3 THEN 16 * ((empty_groups - 3) * 5) ELSE 0)

\* The loops shared by find_best_move and get_top_moves.  `st` is what the
\* loops have made so far: .done lists the passes of the innermost loop body
\* (each a Move without its score), .grid is the contents of self.grid,
\* .alloc the number of arrays created so far (an array is identified by its
\* number; self_id is the number of self.grid).

\* one pass of the innermost loop body: place and clear.  place_piece gets
\* the object self.grid; clear_complete_lines gets the object place_piece
\* returned.
PlaceAndClear(st, self_id, piece_idx, piece_cells, position) ==
    Then(place_piece(st.grid, piece_cells, position), LAMBDA placed :
    Then(clear_complete_lines(placed.grid), LAMBDA cleared :
        LET placed_id == IF placed.new THEN st.alloc + 1 ELSE self_id
            alloc1 == IF placed.new THEN st.alloc + 1 ELSE st.alloc
            cleared_id == IF cleared.new THEN alloc1 + 1 ELSE placed_id
            alloc2 == IF cleared.new THEN alloc1 + 1 ELSE alloc1
            pass == [ piece_index |-> piece_idx,
                      position |-> position,
                      piece_cells |-> piece_cells,
                      lines_cleared |-> cleared.lines,
                      resulting_grid |-> cleared.grid,
                      resulting_grid_id |-> cleared_id ]
        IN  [ done |-> Append(st.done, pass),
              grid |-> IF placed.new THEN placed.arg ELSE cleared.arg,
              alloc |-> alloc2 ]))

\* (variant) the score is taken as if no line had been cleared
MakeMoveNoLines(pass) ==
    [ piece_index |-> pass.piece_index,
      position |-> pass.position,
      piece_cells |-> pass.piece_cells,
      score |-> evaluate_position(pass.resulting_grid, 0),
      lines_cleared |-> pass.lines_cleared,
      resulting_grid |-> pass.resulting_grid,
      resulting_grid_id |-> pass.resulting_grid_id ]

\* the Move of a pass: its score is evaluate_position on the cleared grid
\* (which has no effect; the scores are worked out after the loops)
MakeMove(pass) ==
    [ piece_index |-> pass.piece_index,
      position |-> pass.position,
      piece_cells |-> pass.piece_cells,
      score |-> evaluate_position(pass.resulting_grid, pass.lines_cleared),
      lines_cleared |-> pass.lines_cleared,
      resulting_grid |-> pass.resulting_grid,
      resulting_grid_id |-> pass.resulting_grid_id ]

\* The three loops below run their passes in order, each pass starting from
\* what the pass before it left.  A range of passes lo .. hi is run as its
\* first half and then its second half, which keeps the evaluator's own
\* recursion shallow.

\* the innermost loop, valid positions lo .. hi: one pass per position
RECURSIVE MovesAt(_, _, _, _, _, _, _)
MovesAt(st, self_id, piece_idx, piece_cells, valid_positions, lo, hi) ==
    IF lo > hi THEN st
    ELSE IF lo = hi
    THEN PlaceAndClear(st, self_id, piece_idx, piece_cells, valid_positions[lo])
    ELSE Then(MovesAt(st, self_id, piece_idx, piece_cells, valid_positions,
                      lo, (lo + hi) \div 2),
              LAMBDA st1 : MovesAt(st1, self_id, piece_idx, piece_cells,
                                   valid_positions, (lo + hi) \div 2 + 1, hi))

\* the body of the orientation loop: the valid positions on self.grid as
\* it is then, and the innermost loop over them
MovesOfOrientation(st, self_id, piece_idx, piece_cells) ==
    Then(get_all_valid_placements(st.grid, piece_cells),
         LAMBDA valid_positions :
             MovesAt(st, self_id, piece_idx, piece_cells, valid_positions,
                     1, Len(valid_positions)))

\* the orientation loop, orientations lo .. hi
RECURSIVE MovesOfOrientations(_, _, _, _, _, _)
MovesOfOrientations(st, self_id, piece_idx, orientations, lo, hi) ==
    IF lo > hi THEN st
    ELSE IF lo = hi
    THEN MovesOfOrientation(st, self_id, piece_idx, orientations[lo])
    ELSE Then(MovesOfOrientations(st, self_id, piece_idx, orientations,
                                  lo, (lo + hi) \div 2),
              LAMBDA st1 : MovesOfOrientations(st1, self_id, piece_idx, orientations,
                                               (lo + hi) \div 2 + 1, hi))

\* the body of the piece loop (enumerate() counts pieces from 0)
MovesOfPiece(st, self_id, pieces, i) ==
    Then(get_all_orientations(pieces[i]),
         LAMBDA orientations :
             MovesOfOrientations(st, self_id, i - 1, orientations, 1, Len(orientations)))

\* the piece loop, pieces lo .. hi
RECURSIVE MovesFrom(_, _, _, _, _)
MovesFrom(st, self_id, pieces, lo, hi) ==
    IF lo > hi THEN st
    ELSE IF lo = hi
    THEN MovesOfPiece(st, self_id, pieces, lo)
    ELSE Then(MovesFrom(st, self_id, pieces, lo, (lo + hi) \div 2),
              LAMBDA st1 : MovesFrom(st1, self_id, pieces, (lo + hi) \div 2 + 1, hi))

\* the Moves of passes lo .. hi, in the order of the passes
RECURSIVE MovesOfPasses(_, _, _)
MovesOfPasses(done, lo, hi) ==
    IF lo > hi THEN << >>
    ELSE IF lo = hi
    THEN << MakeMove(done[lo]) >>
    ELSE MovesOfPasses(done, lo, (lo + hi) \div 2)
             \o MovesOfPasses(done, (lo + hi) \div 2 + 1, hi)

\* the loops run on a solver whose grid is array self_id with contents
\* grid: .moves is all_moves
AllMoves(grid, self_id, alloc, pieces) ==
    Then(MovesFrom([done |-> << >>, grid |-> grid, alloc |-> alloc], self_id, pieces,
                   1, Len(pieces)),
         LAMBDA st : [ moves |-> MovesOfPasses(st.done, 1, Len(st.done)),
                       grid |-> st.grid,
                       alloc |-> st.alloc ])

\* (variant) the last of the elements with the largest key
MaxIndexLast(all_moves) ==
    CHOOSE i \in 1 .. Len(all_moves) :
        /\ \A j \in 1 .. Len(all_moves) : all_moves[j].score <= all_moves[i].score
        /\ \A j \in (i + 1) .. Len(all_moves) : all_moves[j].score < all_moves[i].score

\* max(all_moves, key=score): the index of the first element whose key
\* no element exceeds
MaxIndex(all_moves) ==
    CHOOSE i \in 1 .. Len(all_moves) :
        /\ \A j \in 1 .. Len(all_moves) : all_moves[j].score <= all_moves[i].score
        /\ \A j \in 1 .. (i - 1) : all_moves[j].score < all_moves[i].score

\* (variant) a single candidate is not returned
BestOfNeedsTwo(all_moves) ==
    IF Len(all_moves) > 1 THEN all_moves[MaxIndex(all_moves)] ELSE [piece_index |-> -1]

NoMove == [piece_index |-> -1]

\* find_best_move's result from all_moves: the best Move or None
BestOf(all_moves) ==
    IF all_moves # <<>> THEN all_moves[MaxIndex(all_moves)] ELSE NoMove

\* (variant) a descending sort that reverses the elements with equal keys
SortByScoreTiesReversed(s) ==
    LET n == Len(s)
        place == [i \in 1 .. n |->
                     1 + Cardinality({j \in 1 .. n :
                             \/ s[j].score > s[i].score
                             \/ (s[j].score = s[i].score /\ j > i)})]
    IN  [k \in 1 .. n |-> s[CHOOSE i \in 1 .. n : place[i] = k]]

\* list.sort(key=score, reverse=True): stable, descending.  Element i
\* lands after every element with a larger key and every earlier element
\* with an equal key.
SortByScore(s) ==
    LET n == Len(s)
        place == [i \in 1 .. n |->
                     1 + Cardinality({j \in 1 .. n :
                             \/ s[j].score > s[i].score
                             \/ (s[j].score = s[i].score /\ j < i)})]
    IN  [k \in 1 .. n |-> s[CHOOSE i \in 1 .. n : place[i] = k]]

\* Python slice s[:n] for any integer n
SliceTo(s, n) ==
    LET stop == IF n >= 0 THEN (IF n < Len(s) THEN n ELSE Len(s))
                ELSE (IF Len(s) + n > 0 THEN Len(s) + n ELSE 0)
    IN  SubSeq(s, 1, stop)

\* (variant) the slice of all_moves as it was built, without the sort
TopOfUnsorted(all_moves, n) == SliceTo(all_moves, n)

\* get_top_moves's result from all_moves
TopOf(all_moves, n) == SliceTo(SortByScore(all_moves), n)


\* =================================================================
\* The callers: one call sequence per behaviour, on bounded inputs
\* =================================================================

\* ---- bounds of the inputs
MaxOut == 1          \* anchors range over -MaxOut .. GRID_SIZE - 1 + MaxOut
MaxTopN == 3         \* get_top_moves(n) for n in 0 .. MaxTopN
MaxPieces == 2       \* a solver gets 0 .. MaxPieces pieces
MaxCells == 4        \* a shape has 1 .. MaxCells cells ...
BoxSize == 3         \* ... inside a BoxSize x BoxSize box
MaxCalls == 2        \* find_best_move / get_top_moves calls on one solver
MaxLines == 2        \* evaluate_position(g, L) for L in 0 .. MaxLines

VARIABLES
    grid,      \* the caller's grid array: the truth values of its cells
    gridtype,  \* what the caller's grid is: whether a numpy array, its shape
               \* and its dtype (grid is read only when it is an 8 x 8 array)
    pieces,    \* the caller's list of BlockShape objects (their cell lists)
    cells,     \* a raw cell list handed to BlockShape(...)
    solver,    \* the BlockBlastSolver object, once constructed
    op,        \* the call that returned last ("none" before the first)
    args,      \* its arguments
    ret,       \* what it returned
    alloc,     \* the number of arrays created so far; an array is identified
               \* by its number, the caller's grid is array 1
    budget     \* the number of solver method calls the caller still makes

vars == <<grid, gridtype, pieces, cells, solver, op, args, ret, alloc, budget>>

\* np.zeros((8, 8), dtype=bool) and the like
BoolGrid == [ndarray |-> TRUE, shape |-> <<GRID_SIZE, GRID_SIZE>>, dtype |-> "bool"]

NoSolver == [made |-> FALSE]
NoArgs == [none |-> TRUE]
NoRet == [none |-> TRUE]

\* ---- grids
GridOf(occupied) == [x \in Cells |-> x \in occupied]
RowCells(r) == {x \in Cells : x[1] = r}
ColCells(c) == {x \in Cells : x[2] = c}
UnionOf(SS) == UNION SS

\* grids for the utility calls: any of rows 0 and 3 and columns 0 and 5
\* fully occupied, over one of a few other occupancy patterns
FullRowChoice == {0, 3}
FullColChoice == {0, 5}
Noise ==
    { {},
      {<<1, 1>>},
      {<<1, 2>>, <<6, 6>>, <<7, 7>>},
      RowCells(1) \ {<<1, 7>>},
      Cells \ {<<2, 2>>} }

UtilGrids ==
    { GridOf(UnionOf({RowCells(r) : r \in R}) \cup UnionOf({ColCells(c) : c \in C}) \cup X) :
        R \in SUBSET FullRowChoice, C \in SUBSET FullColChoice, X \in Noise }

\* cell lists for the utility calls: normalized shapes, a list without the
\* offset (0, 0), a list with a negative offset, a list with a repeated
\* offset, the empty list
UtilCells ==
    { << <<0, 0>> >>,
      << <<0, 0>>, <<0, 1>> >>,
      << <<0, 0>>, <<1, 0>>, <<1, 1>> >>,
      << <<1, 1>>, <<1, 2>> >>,
      << <<0, -1>>, <<0, 0>>, <<1, 0>> >>,
      << <<0, 0>>, <<0, 1>>, <<0, 0>> >>,
      << >> }

Anchors == ((0 - MaxOut) .. (GRID_SIZE - 1 + MaxOut)) \X ((0 - MaxOut) .. (GRID_SIZE - 1 + MaxOut))

\* grids for the solver: a board that is empty on a part of the window and
\* otherwise either full or full but for one isolated cell in each of the
\* rows 2 .. 7
Window == {<<0, 0>>, <<0, 1>>, <<0, 2>>, <<1, 0>>}
IsolatedCells == {<<2, 3>>, <<3, 5>>, <<4, 7>>, <<5, 1>>, <<6, 4>>, <<7, 6>>}
SolverGrids ==
    { GridOf(Cells \ (E \cup B)) : E \in SUBSET Window, B \in {{}, IsolatedCells} }

\* pieces for the solver, as the caller builds them
Catalog ==
    { BlockShape(<< <<0, 0>> >>),
      BlockShape(<< <<0, 0>>, <<0, 1>> >>),
      BlockShape(<< <<0, 0>>, <<1, 0>>, <<1, 1>> >>) }

\* a piece parsed from data without cells: BlockShape([])
EmptyPiece == BlockShape(<< >>)

SeqsUpTo(S, n) == UNION { [1 .. k -> S] : k \in 0 .. n }
PieceLists == SeqsUpTo(Catalog, MaxPieces)

\* raw cell lists for BlockShape(...): the cells of a non-empty set inside
\* the box, listed in ascending or in descending order
Box == (0 .. (BoxSize - 1)) \X (0 .. (BoxSize - 1))
RECURSIVE AscList(_)
AscList(S) ==
    IF S = {} THEN <<>>
    ELSE LET m == CHOOSE x \in S : \A y \in S : x = y \/ TupleLess(x, y)
         IN  <<m>> \o AscList(S \ {m})
Reverse(s) == [i \in 1 .. Len(s) |-> s[Len(s) + 1 - i]]
CellSets == {S \in SUBSET Box : S # {} /\ Cardinality(S) <= MaxCells}
\* ... and lists that name their first cell a second time
RepeatInputs ==
    { AscList(S) \o << AscList(S)[1] >> : S \in {T \in CellSets : Cardinality(T) <= 2} }
\* ... and the catalog's pieces turned and mirrored the 8 ways, as a vision
\* result may give them
TurnedCatalog ==
    { [i \in 1 .. Len(STANDARD_PIECES[e].cells) |->
           LET c == STANDARD_PIECES[e].cells[i]
           IN  CASE k = 1 -> <<c[1], c[2]>>
                 [] k = 2 -> <<c[2], 4 - c[1]>>
                 [] k = 3 -> <<4 - c[1], 4 - c[2]>>
                 [] k = 4 -> <<4 - c[2], c[1]>>
                 [] k = 5 -> <<c[1], 4 - c[2]>>
                 [] k = 6 -> <<4 - c[2], 4 - c[1]>>
                 [] k = 7 -> <<4 - c[1], c[2]>>
                 [] k = 8 -> <<c[2], c[1]>>] :
        e \in 1 .. Len(STANDARD_PIECES), k \in 1 .. 8 }
ShapeInputs ==
    {AscList(S) : S \in CellSets} \cup {Reverse(AscList(S)) : S \in CellSets}
        \cup RepeatInputs
MatchInputs == ShapeInputs \cup TurnedCatalog

\* ---- utility calls (utils.py)
UtilInit ==
    /\ grid \in UtilGrids
    /\ pieces = <<>>
    /\ cells = <<>>
    /\ solver = NoSolver
    /\ op = "none"
    /\ args = NoArgs
    /\ ret = NoRet
    /\ alloc = 1
    /\ gridtype = BoolGrid
    /\ budget = 0

CanPlacePiece(piece_cells, position) ==
    /\ op = "none"
    /\ op' = "can_place_piece"
    /\ args' = [grid |-> grid, piece_cells |-> piece_cells, position |-> position]
    /\ ret' = can_place_piece(grid, piece_cells, position)
    /\ UNCHANGED <<gridtype, grid, pieces, cells, solver, alloc, budget>>

PlacePiece(piece_cells, position) ==
    /\ op = "none"
    /\ LET r == place_piece(grid, piece_cells, position)
       IN  /\ op' = "place_piece"
           /\ args' = [grid |-> grid, piece_cells |-> piece_cells, position |-> position]
           /\ ret' = [err |-> r.err, grid |-> r.grid]
           /\ grid' = r.arg
           /\ alloc' = IF r.new THEN alloc + 1 ELSE alloc
    /\ UNCHANGED <<gridtype, pieces, cells, solver, budget>>

ClearCompleteLines ==
    /\ op = "none"
    /\ LET r == clear_complete_lines(grid)
       IN  /\ op' = "clear_complete_lines"
           /\ args' = [grid |-> grid]
           /\ ret' = [grid |-> r.grid, lines |-> r.lines]
           /\ grid' = r.arg
           /\ alloc' = IF r.new THEN alloc + 1 ELSE alloc
    /\ UNCHANGED <<gridtype, pieces, cells, solver, budget>>

GetAllValidPlacements(piece_cells) ==
    /\ op = "none"
    /\ op' = "get_all_valid_placements"
    /\ args' = [grid |-> grid, piece_cells |-> piece_cells]
    /\ ret' = get_all_valid_placements(grid, piece_cells)
    /\ UNCHANGED <<gridtype, grid, pieces, cells, solver, alloc, budget>>

UtilNext ==
    \/ \E pc \in UtilCells, pos \in Anchors : CanPlacePiece(pc, pos)
    \/ \E pc \in UtilCells, pos \in Anchors : PlacePiece(pc, pos)
    \/ ClearCompleteLines
    \/ \E pc \in UtilCells : GetAllValidPlacements(pc)

UtilSpec == UtilInit /\ [][UtilNext]_vars

\* ---- shapes (block_shapes.py)
ShapeInit ==
    /\ grid = EmptyGrid
    /\ pieces = <<>>
    /\ cells \in ShapeInputs
    /\ solver = NoSolver
    /\ op = "none"
    /\ args = NoArgs
    /\ ret = NoRet
    /\ alloc = 1
    /\ gridtype = BoolGrid
    /\ budget = 0

\* BlockShape(cells).rotate_90()
Rotate90 ==
    /\ op = "none"
    /\ op' = "rotate_90"
    /\ args' = [shape |-> BlockShape(cells)]
    /\ ret' = rotate_90(BlockShape(cells))
    /\ UNCHANGED <<gridtype, grid, pieces, cells, solver, alloc, budget>>

\* BlockShape(cells).get_all_orientations()
GetAllOrientations ==
    /\ op = "none"
    /\ op' = "get_all_orientations"
    /\ args' = [shape |-> BlockShape(cells)]
    /\ ret' = get_all_orientations(BlockShape(cells))
    /\ UNCHANGED <<gridtype, grid, pieces, cells, solver, alloc, budget>>

\* BlockShape(cells).cells, which is self._normalize(cells)
Normalize ==
    /\ op = "none"
    /\ op' = "_normalize"
    /\ args' = [cells |-> cells]
    /\ ret' = _normalize(cells)
    /\ UNCHANGED <<gridtype, grid, pieces, cells, solver, alloc, budget>>

\* find_matching_piece(cells)
FindMatchingPiece ==
    /\ op = "none"
    /\ op' = "find_matching_piece"
    /\ args' = [cells |-> cells]
    /\ ret' = find_matching_piece(cells)
    /\ UNCHANGED <<gridtype, grid, pieces, cells, solver, alloc, budget>>

ShapeNext ==
    \/ Rotate90
    \/ GetAllOrientations
    \/ Normalize

ShapeSpec == ShapeInit /\ [][ShapeNext]_vars

\* ---- find_matching_piece on the shapes and on the turned catalog
MatchInit ==
    /\ grid = EmptyGrid
    /\ pieces = <<>>
    /\ cells \in MatchInputs
    /\ solver = NoSolver
    /\ op = "none"
    /\ args = NoArgs
    /\ ret = NoRet
    /\ alloc = 1
    /\ gridtype = BoolGrid
    /\ budget = 0

MatchSpec == MatchInit /\ [][FindMatchingPiece]_vars

\* ---- the solver (solver.py)
Init ==
    /\ grid \in SolverGrids
    /\ pieces \in PieceLists
    /\ cells = <<>>
    /\ solver = NoSolver
    /\ op = "none"
    /\ args = NoArgs
    /\ ret = NoRet
    /\ alloc = 1
    /\ gridtype = BoolGrid
    /\ budget = 1

\* BlockBlastSolver(grid, pieces): self.grid is a new array, the copy
NewSolver ==
    /\ op = "none"
    /\ op' = "BlockBlastSolver"
    /\ solver' = [made |-> TRUE, grid |-> Copy(grid), grid_id |-> alloc + 1,
                  pieces |-> pieces, best_move |-> NoMove]
    /\ alloc' = alloc + 1
    /\ args' = [grid |-> grid, pieces |-> pieces]
    /\ ret' = NoRet
    /\ UNCHANGED <<gridtype, grid, pieces, cells, budget>>

\* solver.find_best_move(); all_moves is the method's list when it returns.
\* The caller's grid is not self.grid (the constructor copied it) and the
\* method has no other array in reach, so it is left alone.
FindBestMove ==
    /\ solver.made
    /\ budget > 0
    /\ \E st \in {AllMoves(solver.grid, solver.grid_id, alloc, solver.pieces)} :
          \E best \in {BestOf(st.moves)} :
              /\ solver' = [solver EXCEPT !.grid = st.grid,
                                          !.best_move =
                               IF st.moves # <<>> THEN best ELSE solver.best_move]
              /\ alloc' = st.alloc
              /\ ret' = [move |-> best, all_moves |-> st.moves]
    /\ op' = "find_best_move"
    /\ args' = NoArgs
    /\ budget' = budget - 1
    /\ UNCHANGED <<gridtype, grid, pieces, cells>>

\* solver.get_top_moves(n)
GetTopMoves ==
    /\ solver.made
    /\ budget > 0
    /\ \E st \in {AllMoves(solver.grid, solver.grid_id, alloc, solver.pieces)} :
          \E n \in 0 .. MaxTopN :
              /\ solver' = [solver EXCEPT !.grid = st.grid]
              /\ alloc' = st.alloc
              /\ args' = [n |-> n]
              /\ ret' = [moves |-> TopOf(st.moves, n), all_moves |-> st.moves]
    /\ op' = "get_top_moves"
    /\ budget' = budget - 1
    /\ UNCHANGED <<gridtype, grid, pieces, cells>>

Next ==
    \/ NewSolver
    \/ FindBestMove
    \/ GetTopMoves

Spec == Init /\ [][Next]_vars

\* ---- the solver given a piece without cells
WindowGrids == { GridOf(Cells \ (E \cup IsolatedCells)) : E \in SUBSET Window }
EmptyPieceLists == SeqsUpTo({EmptyPiece, BlockShape(<< <<0, 0>> >>)}, MaxPieces)

EmptyPieceInit ==
    /\ grid \in WindowGrids
    /\ pieces \in EmptyPieceLists
    /\ cells = <<>>
    /\ solver = NoSolver
    /\ op = "none"
    /\ args = NoArgs
    /\ ret = NoRet
    /\ alloc = 1
    /\ gridtype = BoolGrid
    /\ budget = 1

EmptyPieceSpec == EmptyPieceInit /\ [][Next]_vars

\* ---- one solver called several times
\* the boards of the window with (0, 0) and (1, 0) empty, where a piece can
\* complete row 1, and three piece lists
CallsGrids ==
    { GridOf(Cells \ (E \cup IsolatedCells)) :
        E \in {S \in SUBSET Window : {<<0, 0>>, <<1, 0>>} \subseteq S} }
CallsPieces ==
    { << BlockShape(<< <<0, 0>> >>) >>,
      << BlockShape(<< <<0, 0>>, <<0, 1>> >>), BlockShape(<< <<0, 0>>, <<1, 0>>, <<1, 1>> >>) >>,
      << BlockShape(<< <<0, 0>>, <<1, 0>>, <<1, 1>> >>), BlockShape(<< <<0, 0>> >>) >> }

CallsInit ==
    /\ grid \in CallsGrids
    /\ pieces \in CallsPieces
    /\ cells = <<>>
    /\ solver = NoSolver
    /\ op = "none"
    /\ args = NoArgs
    /\ ret = NoRet
    /\ alloc = 1
    /\ gridtype = BoolGrid
    /\ budget = MaxCalls

CallsSpec == CallsInit /\ [][Next]_vars

\* ---- the scenarios: a single one-cell piece on the empty board and on the
\* boards with 7 of the 8 cells of one line occupied
Lines == {RowCells(r) : r \in Idx} \cup {ColCells(c) : c \in Idx}
LineGrids == UNION { { GridOf(line \ {x}) : x \in line } : line \in Lines }

ScenarioInit ==
    /\ grid \in {EmptyGrid} \cup LineGrids
    /\ pieces = << BlockShape(<< <<0, 0>> >>) >>
    /\ cells = <<>>
    /\ solver = NoSolver
    /\ op = "none"
    /\ args = NoArgs
    /\ ret = NoRet
    /\ alloc = 1
    /\ gridtype = BoolGrid
    /\ budget = 1

ScenarioNext ==
    \/ NewSolver
    \/ FindBestMove

ScenarioSpec == ScenarioInit /\ [][ScenarioNext]_vars

\* ---- validate_grid, and the solver given any 8 x 8 array
\* The solver reads and writes the cells of its grid through their truth
\* values only (if grid[r, c], np.all, np.sum over cells that are 0 or 1,
\* assignments of True and False), so on an 8 x 8 array of another dtype
\* whose cells are 0 or 1 it runs as on the boolean array with the same
\* truth values; its calls on an object of another shape are left out.
Dims == (GRID_SIZE - MaxOut) .. (GRID_SIZE + MaxOut)
GridTypes == [ndarray : BOOLEAN, shape : Dims \X Dims, dtype : {"bool", "int", "float"}]
SinglePieceLists == SeqsUpTo({BlockShape(<< <<0, 0>> >>)}, MaxPieces)

GridInit ==
    /\ grid \in WindowGrids
    /\ gridtype \in GridTypes
    /\ pieces \in SinglePieceLists
    /\ cells = <<>>
    /\ solver = NoSolver
    /\ op = "none"
    /\ args = NoArgs
    /\ ret = NoRet
    /\ alloc = 1
    /\ budget = 1

ValidateGrid ==
    /\ op = "none"
    /\ op' = "validate_grid"
    /\ args' = [grid |-> gridtype]
    /\ ret' = validate_grid(gridtype)
    /\ UNCHANGED <<grid, gridtype, pieces, cells, solver, alloc, budget>>

SolverOnArray ==
    /\ gridtype.ndarray
    /\ gridtype.shape = <<GRID_SIZE, GRID_SIZE>>
    /\ Next

GridNext ==
    \/ ValidateGrid
    \/ SolverOnArray

GridSpec == GridInit /\ [][GridNext]_vars

\* ---- evaluate_position on its own
\* grids for the evaluation: those of the utility calls and of the solver,
\* and a few open boards (empty, a checkerboard, two walls)
Checkerboard == {x \in Cells : (x[1] + x[2]) % 2 = 0}
Walls == RowCells(2) \cup ColCells(4)
EvalGrids ==
    UtilGrids \cup SolverGrids
        \cup { EmptyGrid, GridOf(Checkerboard), GridOf(Walls),
               GridOf(Walls \cup {<<0, 0>>, <<0, 2>>, <<1, 1>>}) }

EvalInit ==
    /\ grid \in EvalGrids
    /\ pieces = <<>>
    /\ cells = <<>>
    /\ solver = NoSolver
    /\ op = "none"
    /\ args = NoArgs
    /\ ret = NoRet
    /\ alloc = 1
    /\ gridtype = BoolGrid
    /\ budget = 0

EvaluatePosition(lines_cleared) ==
    /\ op = "none"
    /\ op' = "evaluate_position"
    /\ args' = [grid |-> grid, lines_cleared |-> lines_cleared]
    /\ ret' = evaluate_position(grid, lines_cleared)
    /\ UNCHANGED <<grid, gridtype, pieces, cells, solver, alloc, budget>>

EvalNext == \E lines_cleared \in 0 .. MaxLines : EvaluatePosition(lines_cleared)

EvalSpec == EvalInit /\ [][EvalNext]_vars

\* ---- count_holes and _count_empty_groups on their own
\* the grids of the evaluation, the full board, and boards whose empty cells
\* touch only at corners
CountGrids ==
    EvalGrids
        \cup { GridOf(Cells), GridOf(Cells \ {<<0, 0>>, <<1, 1>>}),
               GridOf(Cells \ Checkerboard),
               GridOf(Cells \ {<<3, 3>>, <<4, 4>>, <<4, 5>>, <<7, 0>>, <<6, 1>>}) }

CountInit ==
    /\ grid \in CountGrids
    /\ pieces = <<>>
    /\ cells = <<>>
    /\ solver = NoSolver
    /\ op = "none"
    /\ args = NoArgs
    /\ ret = NoRet
    /\ alloc = 1
    /\ gridtype = BoolGrid
    /\ budget = 0

CountHoles ==
    /\ op = "none"
    /\ op' = "count_holes"
    /\ args' = [grid |-> grid]
    /\ ret' = count_holes(grid)
    /\ UNCHANGED <<grid, gridtype, pieces, cells, solver, alloc, budget>>

\* self._count_empty_groups(grid): .returned tells that the loop ended with
\* no call of dfs pending, .groups is the value returned, .visited and .marks
\* are the local array and the number of assignments to it at that point
CountEmptyGroups ==
    /\ op = "none"
    /\ op' = "_count_empty_groups"
    /\ args' = [grid |-> grid]
    /\ \E st \in {GroupsRun(grid)} :
           ret' = [returned |-> (st.row = 8 /\ st.calls = << >>),
                   groups |-> st.groups, visited |-> st.visited, marks |-> st.marks]
    /\ UNCHANGED <<grid, gridtype, pieces, cells, solver, alloc, budget>>

CountNext ==
    \/ CountHoles
    \/ CountEmptyGroups

CountSpec == CountInit /\ [][CountNext]_vars

\* =================================================================
\* Properties of the utility calls (checked under UtilSpec)
\* =================================================================

RowFull(g, r) == \A c \in Idx : g[<<r, c>>]
ColFull(g, c) == \A r \in Idx : g[<<r, c>>]
FullRows(g) == {r \in Idx : RowFull(g, r)}
FullCols(g) == {c \in Idx : ColFull(g, c)}

\* the absolute cells anchor + offset of a placement
AbsCells(piece_cells, position) ==
    { <<position[1] + piece_cells[i][1], position[2] + piece_cells[i][2]>> :
        i \in 1 .. Len(piece_cells) }

DuplicateFree(piece_cells) ==
    \A i, j \in 1 .. Len(piece_cells) : piece_cells[i] = piece_cells[j] => i = j

\* C1: clear_complete_lines returns the grid in which a cell is occupied iff
\* it is occupied in the input and neither its row nor its column is fully
\* occupied in the input (rows and columns judged on the same snapshot).
C1_SnapshotClear ==
    op = "clear_complete_lines" =>
        \A x \in Cells :
            ret.grid[x] <=> ( /\ args.grid[x]
                              /\ ~RowFull(args.grid, x[1])
                              /\ ~ColFull(args.grid, x[2]) )

\* C2: the count returned by clear_complete_lines is the number of fully
\* occupied rows of the input plus the number of its fully occupied columns.
C2_CountRowsPlusCols ==
    op = "clear_complete_lines" =>
        ret.lines = Cardinality(FullRows(args.grid)) + Cardinality(FullCols(args.grid))

\* C7: can_place_piece is True iff every absolute cell anchor + offset lies
\* inside the grid and is unoccupied, for anchors inside and outside the grid.
C7_CanPlaceIff ==
    op = "can_place_piece" =>
        ( ret <=> \A x \in AbsCells(args.piece_cells, args.position) :
                      x \in Cells /\ ~args.grid[x] )

\* an anchor outside the grid is accepted, and an anchor inside is refused
C7_Witness ==
    /\ op = "can_place_piece"
    /\ ret
    /\ args.position \notin Cells
    /\ args.piece_cells # <<>>
    /\ \E a \in Cells : ~can_place_piece(args.grid, args.piece_cells, a)

\* C8: get_all_valid_placements returns, in row-major order and without
\* repetition, exactly the anchors of the grid at which can_place_piece holds.
C8_ValidPlacementsExact ==
    op = "get_all_valid_placements" =>
        /\ \A k \in 1 .. Len(ret) : ret[k] \in Cells
        /\ \A k \in 1 .. (Len(ret) - 1) : TupleLess(ret[k], ret[k + 1])
        /\ \A a \in Cells :
               (\E k \in 1 .. Len(ret) : ret[k] = a)
                   <=> can_place_piece(args.grid, args.piece_cells, a)

\* some anchors are returned, others are not, and the last anchor is valid
C8_Witness ==
    /\ op = "get_all_valid_placements"
    /\ Len(ret) >= 2
    /\ Len(ret) < GRID_SIZE * GRID_SIZE
    /\ ret[Len(ret)] = <<GRID_SIZE - 1, GRID_SIZE - 1>>

\* C9: for a duplicate-free cell list that can be placed, place_piece returns
\* a grid that differs from the input exactly on the |p| absolute cells, all
\* occupied in the result, and the caller's grid is unchanged.
C9_PlaceExactFootprint ==
    ( /\ op = "place_piece"
      /\ DuplicateFree(args.piece_cells)
      /\ can_place_piece(args.grid, args.piece_cells, args.position) ) =>
        /\ ~ret.err
        /\ {x \in Cells : ret.grid[x] # args.grid[x]}
               = AbsCells(args.piece_cells, args.position)
        /\ Cardinality(AbsCells(args.piece_cells, args.position)) = Len(args.piece_cells)
        /\ \A x \in AbsCells(args.piece_cells, args.position) : ret.grid[x]
        /\ grid = args.grid

C9_Witness ==
    /\ op = "place_piece"
    /\ Len(args.piece_cells) >= 3
    /\ DuplicateFree(args.piece_cells)
    /\ can_place_piece(args.grid, args.piece_cells, args.position)
    /\ Occupied(args.grid) > 0
    /\ Occupied(ret.grid) = Occupied(args.grid) + Len(args.piece_cells)

\* C10: clear_complete_lines applied to the grid it returned clears no line
\* and returns that grid unchanged; its output has no fully occupied line.
C10_ClearIdempotent ==
    op = "clear_complete_lines" =>
        /\ clear_complete_lines(ret.grid).lines = 0
        /\ clear_complete_lines(ret.grid).grid = ret.grid
        /\ FullRows(ret.grid) = {}
        /\ FullCols(ret.grid) = {}

\* the call cleared several rows of a grid that also had complete columns
C10_Witness ==
    /\ op = "clear_complete_lines"
    /\ Cardinality(FullRows(args.grid)) >= 2
    /\ FullCols(args.grid) # {}
    /\ ret.lines >= 2
    /\ Occupied(ret.grid) > 0

\* =================================================================
\* Properties of the shapes (checked under ShapeSpec)
\* =================================================================

\* the eight elements of the dihedral group acting on a cell: the four
\* rotations, then the four rotations of the mirror image
Dihedral(k, c) ==
    CASE k = 1 -> <<c[1], c[2]>>
      [] k = 2 -> <<c[2], -c[1]>>
      [] k = 3 -> <<-c[1], -c[2]>>
      [] k = 4 -> <<-c[2], c[1]>>
      [] k = 5 -> <<c[1], -c[2]>>
      [] k = 6 -> <<-c[2], -c[1]>>
      [] k = 7 -> <<-c[1], c[2]>>
      [] k = 8 -> <<c[2], c[1]>>

DihedralImages(shape) ==
    { _normalize([i \in 1 .. Len(shape) |-> Dihedral(k, shape[i])]) : k \in 1 .. 8 }

Range(s) == {s[i] : i \in 1 .. Len(s)}

\* C3: the cell lists returned by get_all_orientations are exactly the
\* normalized images of the shape under the 8 elements of the dihedral group.
C3_AllDihedralImages ==
    op = "get_all_orientations" => Range(ret) = DihedralImages(args.shape)

\* =================================================================
\* Properties of the solver (checked under Spec)
\* =================================================================

IsNone(m) == m.piece_index = -1

\* the candidates of a solver: piece (counted from 0), orientation (its place
\* in get_all_orientations of the piece) and anchor with can_place_piece
CandidatesOfPiece(sv, i) ==
    UNION { UNION { { <<i - 1, j, a>> :
                        a \in {b \in Cells : can_place_piece(sv.grid, os[j], b)} } :
                    j \in 1 .. Len(os) } :
            os \in {get_all_orientations(sv.pieces[i])} }

Candidates(sv) == UNION { CandidatesOfPiece(sv, i) : i \in 1 .. Len(sv.pieces) }

\* the candidate a Move stands for (orientation 0 when its cells are none of
\* the piece's orientations)
IndexIn(os, piece_cells) ==
    IF \E q \in 1 .. Len(os) : os[q] = piece_cells
    THEN CHOOSE q \in 1 .. Len(os) : os[q] = piece_cells
    ELSE 0

OrientationIndex(sv, m) ==
    IF m.piece_index \notin 0 .. (Len(sv.pieces) - 1) THEN 0
    ELSE IndexIn(get_all_orientations(sv.pieces[m.piece_index + 1]), m.piece_cells)

KeyOf(sv, m) == <<m.piece_index, OrientationIndex(sv, m), m.position>>

\* the keys of a list of moves
KeysOf(sv, moves) == [k \in 1 .. Len(moves) |-> KeyOf(sv, moves[k])]

\* enumeration order: piece index, then orientation order, then row-major anchor
KeyLess(k1, k2) ==
    \/ k1[1] < k2[1]
    \/ (k1[1] = k2[1] /\ k1[2] < k2[2])
    \/ (k1[1] = k2[1] /\ k1[2] = k2[2] /\ TupleLess(k1[3], k2[3]))

\* keys lists every candidate in cands once, in enumeration order
IsEnumeration(cands, keys) ==
    /\ Len(keys) = Cardinality(cands)
    /\ \A k \in 1 .. Len(keys) : keys[k] \in cands
    /\ \A k \in 1 .. (Len(keys) - 1) : KeyLess(keys[k], keys[k + 1])

\* C4: when a candidate exists, find_best_move returns a candidate of maximum
\* score, and of the candidates with that score the first in enumeration
\* order (piece index, orientation order, row-major anchor).
C4_BestIsFirstMaximum ==
    op = "find_best_move" =>
        \A cands \in {Candidates(solver)} :
        \A keys \in {KeysOf(solver, ret.all_moves)} :
            cands # {} =>
                /\ IsEnumeration(cands, keys)
                /\ \E k \in 1 .. Len(keys) :
                      /\ ret.move = ret.all_moves[k]
                      /\ \A j \in 1 .. Len(keys) :
                             ret.all_moves[j].score <= ret.move.score
                      /\ \A j \in 1 .. Len(keys) :
                             ret.all_moves[j].score = ret.move.score
                                 => ~KeyLess(keys[j], keys[k])

\* candidates of two different pieces tie for the maximum, others score less
C4_Witness ==
    /\ op = "find_best_move"
    /\ ~IsNone(ret.move)
    /\ \E j \in 1 .. Len(ret.all_moves) :
           /\ ret.all_moves[j].score = ret.move.score
           /\ ret.all_moves[j].piece_index # ret.move.piece_index
    /\ \E j \in 1 .. Len(ret.all_moves) : ret.all_moves[j].score < ret.move.score

\* C5: find_best_move returns None iff no (piece, orientation, anchor) of the
\* enumeration satisfies can_place_piece on the solver's grid; so it returns
\* None on a grid with one empty cell when every piece has two or more cells.
C5_NoneIffNoCandidate ==
    op = "find_best_move" =>
        /\ IsNone(ret.move) <=> Candidates(solver) = {}
        /\ ( /\ Occupied(solver.grid) = GRID_SIZE * GRID_SIZE - 1
             /\ \A i \in 1 .. Len(solver.pieces) : Len(solver.pieces[i]) >= 2 )
               => IsNone(ret.move)

\* one empty cell, pieces of two and three cells: None
C5_Witness ==
    /\ op = "find_best_move"
    /\ Occupied(solver.grid) = GRID_SIZE * GRID_SIZE - 1
    /\ Len(solver.pieces) = 2
    /\ \A i \in 1 .. Len(solver.pieces) : Len(solver.pieces[i]) >= 2
    /\ IsNone(ret.move)

\* C6: get_top_moves(n) returns the first min(n, total) candidates of the
\* enumeration sorted stably by score descending: scores never increase along
\* the result, equal scores keep their enumeration order, and no candidate
\* left out ranks before one that is returned.
C6_TopIsStableSortedPrefix ==
    op = "get_top_moves" =>
        \A cands \in {Candidates(solver)} :
        \A keys \in {KeysOf(solver, ret.all_moves)} :
            LET all == ret.all_moves
                top == ret.moves
                total == Len(all)
                \* all[i] comes before all[j] in the sorted enumeration
                Before(i, j) ==
                    \/ all[i].score > all[j].score
                    \/ (all[i].score = all[j].score /\ KeyLess(keys[i], keys[j]))
            IN  /\ IsEnumeration(cands, keys)
                /\ Len(top) = IF args.n < total THEN args.n ELSE total
                /\ \A k \in 1 .. (Len(top) - 1) : top[k].score >= top[k + 1].score
                /\ \A k \in 1 .. Len(top) : \E j \in 1 .. total : all[j] = top[k]
                /\ \A at \in {[k \in 1 .. Len(top) |->
                                  CHOOSE j \in 1 .. total : all[j] = top[k]]} :
                      /\ \A k \in 1 .. (Len(top) - 1) : Before(at[k], at[k + 1])
                      /\ \A j \in 1 .. total :
                             (\A k \in 1 .. Len(top) : at[k] # j)
                                 => \A k \in 1 .. Len(top) : Before(at[k], j)

\* the result is cut short of the candidates, and holds a tie and a drop
C6_Witness ==
    /\ op = "get_top_moves"
    /\ args.n = 3
    /\ Len(ret.moves) = 3
    /\ Len(ret.all_moves) > 3
    /\ ret.moves[1].score = ret.moves[2].score
    /\ ret.moves[2].score > ret.moves[3].score

\* C11: find_best_move and get_top_moves never produce a candidate move for
\* a piece whose cell list is empty (such a piece is rejected before any
\* search runs).
C11_NoMoveOfEmptyPiece ==
    op \in {"find_best_move", "get_top_moves"} =>
        \A k \in 1 .. Len(ret.all_moves) :
            /\ ret.all_moves[k].piece_cells # << >>
            /\ solver.pieces[ret.all_moves[k].piece_index + 1] # << >>

\* C13: place_piece called with an anchor for which some absolute cell is out
\* of bounds (below 0 or above 7) or occupied in the given grid fails with an
\* error: it returns no grid for such a placement.
C13_PlaceFailsLoudly ==
    ( /\ op = "place_piece"
      /\ \E x \in AbsCells(args.piece_cells, args.position) :
             x \notin Cells \/ args.grid[x] ) =>
        ret.err

\* C12: validate_grid returns True for an 8 x 8 boolean array and False for
\* every grid of another shape or with cells that are not booleans, and the
\* solver produces no candidate move on a grid that validate_grid rejects.
IsBooleanGrid(a) ==
    a.ndarray /\ a.shape = <<GRID_SIZE, GRID_SIZE>> /\ a.dtype = "bool"

C12_InvalidGridRejected ==
    /\ op = "validate_grid" => (ret = IsBooleanGrid(args.grid))
    /\ ( /\ op \in {"find_best_move", "get_top_moves"}
         /\ ~validate_grid(gridtype) ) =>
           ret.all_moves = << >>

\* C14: constructing a solver and calling find_best_move and get_top_moves,
\* any number of times, leaves the caller's grid and the solver's own grid
\* as they were, and the resulting_grid of a returned Move is an array of its
\* own: not the caller's array, not the solver's, not one that existed before
\* the call (so none of an earlier Move), not that of another returned Move.
ReturnedMoves(o, r) ==
    IF o = "find_best_move"
    THEN (IF IsNone(r.move) THEN << >> ELSE << r.move >>)
    ELSE r.moves

C14_Step ==
    /\ op' = "BlockBlastSolver" => grid' = grid
    /\ op' \in {"find_best_move", "get_top_moves"} =>
        /\ grid' = grid
        /\ solver'.grid = solver.grid
        /\ solver'.grid_id = solver.grid_id
        /\ LET moves == ReturnedMoves(op', ret')
           IN  \A k \in 1 .. Len(moves) :
                   /\ moves[k].resulting_grid_id # 1
                   /\ moves[k].resulting_grid_id # solver.grid_id
                   /\ moves[k].resulting_grid_id > alloc
                   /\ \A j \in 1 .. (k - 1) :
                          moves[j].resulting_grid_id # moves[k].resulting_grid_id

C14_NoSharedGrids == [][C14_Step]_vars

C14_Witness ==
    /\ budget = 0
    /\ op = "get_top_moves"
    /\ Len(ret.moves) >= 2
    /\ ~IsNone(solver.best_move)
    /\ \E k \in 1 .. Len(ret.moves) : ret.moves[k].lines_cleared > 0

\* C15: for an 8 x 8 grid g with k occupied cells and L >= 0,
\* evaluate_position(g, L) = 100 L - 10 holes(g) + 100 (1 - k / 64)
\*   + the sum, over the rows and the columns with m >= 6 occupied cells, of
\*     5 (m - 5)
\*   - 5 max(0, emptyGroups(g) - 3),
\* and the call leaves g as it was.  (Both sides are taken 16 times.)
\* holes(g): the empty cells with more than half of their neighbours (the up
\* to 8 cells around, inside the grid) occupied.
Around(x) ==
    {y \in Cells : y # x /\ y[1] - x[1] \in {-1, 0, 1} /\ y[2] - x[2] \in {-1, 0, 1}}

HolesOf(g) ==
    {x \in Cells : ~g[x] /\ 2 * Cardinality({y \in Around(x) : g[y]}) > Cardinality(Around(x))}

\* emptyGroups(g): the classes of the empty cells under "joined by a path of
\* empty cells, each step to a cell sharing a side"
Beside(x) ==
    {y \in Cells : (y[1] = x[1] /\ y[2] - x[2] \in {-1, 1})
                       \/ (y[2] = x[2] /\ y[1] - x[1] \in {-1, 1})}

RECURSIVE GroupOf(_, _)
GroupOf(g, S) ==
    LET T == S \cup {y \in UNION {Beside(x) : x \in S} : ~g[y]}
    IN  IF T = S THEN S ELSE GroupOf(g, T)

EmptyGroupsOf(g) == { GroupOf(g, {x}) : x \in {y \in Cells : ~g[y]} }

\* the occupied counts m of the 8 rows and the 8 columns
LineCounts(g) ==
    [line \in {"row", "col"} \X Idx |->
        Cardinality({x \in Cells : g[x] /\ x[IF line[1] = "row" THEN 1 ELSE 2] = line[2]})]

RECURSIVE SumOver(_, _)
SumOver(f, D) ==
    IF D = {} THEN 0
    ELSE LET d == CHOOSE d \in D : TRUE IN f[d] + SumOver(f, D \ {d})

NearBonusOf(g) ==
    LET m == LineCounts(g)
        bonus == [line \in DOMAIN m |-> IF m[line] >= 6 THEN 5 * (m[line] - 5) ELSE 0]
    IN  SumOver(bonus, DOMAIN m)

ExcessGroups(g) ==
    IF Cardinality(EmptyGroupsOf(g)) > 3 THEN Cardinality(EmptyGroupsOf(g)) - 3 ELSE 0

C15_ScoreFormula ==
    op = "evaluate_position" =>
        /\ ret = 16 * 100 * args.lines_cleared
                   - 16 * 10 * Cardinality(HolesOf(args.grid))
                   + 25 * (64 - Cardinality({x \in Cells : args.grid[x]}))
                   + 16 * NearBonusOf(args.grid)
                   - 16 * 5 * ExcessGroups(args.grid)
        /\ grid = args.grid

C15_Witness ==
    /\ op = "evaluate_position"
    /\ args.lines_cleared > 0
    /\ HolesOf(args.grid) # {}
    /\ Cardinality(EmptyGroupsOf(args.grid)) > 3
    /\ \E line \in DOMAIN LineCounts(args.grid) : LineCounts(args.grid)[line] = 6
    /\ \E line \in DOMAIN LineCounts(args.grid) : LineCounts(args.grid)[line] = 8
    /\ Cardinality({x \in Cells : args.grid[x]}) \notin {0, 64}

\* =================================================================
\* Properties of the shapes, continued (checked under ShapeSpec, find_matching_piece under MatchSpec)
\* =================================================================

Shift(s, d) == [i \in 1 .. Len(s) |-> <<s[i][1] + d[1], s[i][2] + d[2]>>]

\* a translation taking a to b takes a's first cell to some cell of b
Translations(a, b) ==
    { <<b[j][1] - a[1][1], b[j][2] - a[1][2]>> : j \in 1 .. Len(b) }

\* the same set of cells up to a translation
SameSetUpToTranslation(a, b) ==
    \E d \in Translations(a, b) : Range(Shift(a, d)) = Range(b)

\* the same cells, each as many times, up to a translation
Count(s, x) == Cardinality({i \in 1 .. Len(s) : s[i] = x})

SameBagUpToTranslation(a, b) ==
    \E d \in Translations(a, b) :
        \A x \in Range(Shift(a, d)) \cup Range(b) : Count(Shift(a, d), x) = Count(b, x)

LexLeq(x, y) == x[1] < y[1] \/ (x[1] = y[1] /\ x[2] <= y[2])

\* the result of normalize: minimum row 0, minimum column 0, sorted, and a
\* fixed point of normalize
IsCanonical(s) ==
    /\ \E i \in 1 .. Len(s) : s[i][1] = 0
    /\ \E i \in 1 .. Len(s) : s[i][2] = 0
    /\ \A i \in 1 .. Len(s) : s[i][1] >= 0 /\ s[i][2] >= 0
    /\ \A i \in 1 .. (Len(s) - 1) : LexLeq(s[i], s[i + 1])
    /\ _normalize(s) = s

\* the lists a cell list is compared with: the lists of one or two cells of
\* two rows of three, its own normal form, itself with its first cell named once more,
\* and its 8 images under the rotations and reflections, moved about and
\* listed backwards
PartnerShifts == {<<0, 0>>, <<-1, 2>>, <<3, -2>>}
ShortCells == (0 .. 1) \X (0 .. 2)
ShortInputs == { <<x>> : x \in ShortCells } \cup { <<x, y>> : x \in ShortCells, y \in ShortCells }
Partners(s, normal) ==
    ShortInputs
        \cup {normal, s \o << s[1] >>}
        \cup UNION { { Shift([i \in 1 .. Len(s) |-> Dihedral(k, s[i])], d),
                       Reverse(Shift([i \in 1 .. Len(s) |-> Dihedral(k, s[i])], d)) } :
                     k \in 1 .. 8, d \in PartnerShifts }

IsSingleCell(shape) == Len(shape) = 1

IsStraightPair(shape) ==
    /\ Len(shape) = 2
    /\ \/ shape[1][1] = shape[2][1] /\ shape[1][2] - shape[2][2] \in {-1, 1}
       \/ shape[1][2] = shape[2][2] /\ shape[1][1] - shape[2][1] \in {-1, 1}

HorizontalDomino == << <<0, 0>>, <<0, 1>> >>
VerticalDomino == << <<0, 0>>, <<1, 0>> >>

C17_OrientationCounts ==
    op = "get_all_orientations" =>
        /\ IsSingleCell(args.shape) => Len(ret) = 1
        /\ IsStraightPair(args.shape) =>
               /\ Len(ret) = 2
               /\ Range(ret) = {HorizontalDomino, VerticalDomino}

C17_Witness ==
    /\ op = "get_all_orientations"
    /\ IsStraightPair(cells)
    /\ cells # args.shape
    /\ args.shape = VerticalDomino
    /\ ret = << VerticalDomino, HorizontalDomino >>

\* C18: find_matching_piece returns the name of a catalog entry exactly when
\* the normalized input is the normalized form of one of the 8 images, under
\* the rotations and reflections, of some entry of STANDARD_PIECES, and
\* 'custom' otherwise.
CatalogNames == { STANDARD_PIECES[e].name : e \in 1 .. Len(STANDARD_PIECES) }

C18_MatchIffDihedralImage ==
    op = "find_matching_piece" =>
        /\ ret \in CatalogNames \cup {"custom"}
        /\ ret # "custom" <=>
               \E e \in 1 .. Len(STANDARD_PIECES) :
                   _normalize(args.cells) \in DihedralImages(STANDARD_PIECES[e].cells)

\* =================================================================
\* The scenarios (checked under ScenarioSpec)
\* =================================================================

\* C19: on the empty grid with a single one-cell piece, find_best_move
\* returns a move, with lines_cleared = 0 and an anchor inside the grid.
C19_EmptyGridMove ==
    ( /\ op = "find_best_move"
      /\ grid = EmptyGrid
      /\ pieces = << << <<0, 0>> >> >> ) =>
        /\ ~IsNone(ret.move)
        /\ ret.move.lines_cleared = 0
        /\ ret.move.position[1] \in 0 .. 7
        /\ ret.move.position[2] \in 0 .. 7

C19_Witness ==
    /\ op = "find_best_move"
    /\ grid = EmptyGrid
    /\ pieces = << << <<0, 0>> >> >>
    /\ Len(ret.all_moves) = 64
    /\ ret.move = solver.best_move

\* C20: when the occupied cells are exactly the 7 cells of a row or column
\* other than its cell x, and the only piece is a single cell, find_best_move
\* returns the move anchored at x, with lines_cleared >= 1 and the line empty
\* in the resulting grid.
C20_CompletesTheLine ==
    \A line \in Lines : \A x \in line :
        ( /\ op = "find_best_move"
          /\ {y \in Cells : grid[y]} = line \ {x}
          /\ pieces = << << <<0, 0>> >> >> ) =>
            /\ ~IsNone(ret.move)
            /\ ret.move.position = x
            /\ ret.move.lines_cleared >= 1
            /\ \A y \in line : ~ret.move.resulting_grid[y]

C20_Witness ==
    /\ op = "find_best_move"
    /\ {y \in Cells : grid[y]} = ColCells(7) \ {<<7, 7>>}
    /\ pieces = << << <<0, 0>> >> >>
    /\ ret.move.position = <<7, 7>>
    /\ ret.move.lines_cleared = 1
    /\ Len(ret.all_moves) = 57

\* =================================================================
\* count_holes and _count_empty_groups (checked under CountSpec)
\* =================================================================

\* the number of cells around x inside the grid: 3 at a corner, 5 on an
\* edge, 8 inside
OnBorder(i) == i = 0 \/ i = 7
NeighbourCount(x) ==
    IF OnBorder(x[1]) /\ OnBorder(x[2]) THEN 3
    ELSE IF OnBorder(x[1]) \/ OnBorder(x[2]) THEN 5
    ELSE 8

OccupiedAround(g, x) == Cardinality({y \in Around(x) : g[y]})

\* C21: count_holes returns the number of empty cells with strictly more
\* than half of their in-bounds neighbours (3 at a corner, 5 on an edge, 8
\* inside) occupied; an empty cell with exactly half of them occupied is
\* not counted.
C21_HolesCounted ==
    op = "count_holes" =>
        ret = Cardinality({x \in Cells :
                  ~args.grid[x] /\ 2 * OccupiedAround(args.grid, x) > NeighbourCount(x)})

C21_Witness ==
    /\ op = "count_holes"
    /\ ret > 0
    /\ \E x \in Cells :
           ~args.grid[x] /\ 2 * OccupiedAround(args.grid, x) = NeighbourCount(x)
    /\ \E x \in Cells :
           ~args.grid[x] /\ NeighbourCount(x) = 3 /\ OccupiedAround(args.grid, x) = 2
    /\ \E x \in Cells :
           ~args.grid[x] /\ NeighbourCount(x) = 5 /\ OccupiedAround(args.grid, x) = 3

\* C22: _count_empty_groups returns, with the number of 4-connected
\* components of the empty cells (0 on the full grid, 1 on the empty grid,
\* cells touching at a corner only are not joined), having marked each empty
\* cell visited exactly once and no other cell, and leaves the grid as it
\* was.
C22_GroupsCounted ==
    op = "_count_empty_groups" =>
        /\ ret.returned
        /\ ret.groups = Cardinality(EmptyGroupsOf(args.grid))
        /\ (\A x \in Cells : args.grid[x]) => ret.groups = 0
        /\ (\A x \in Cells : ~args.grid[x]) => ret.groups = 1
        /\ \A x \in Cells : ret.visited[x] <=> ~args.grid[x]
        /\ ret.marks = Cardinality({x \in Cells : ~args.grid[x]})
        /\ grid = args.grid

C22_Witness ==
    /\ op = "_count_empty_groups"
    /\ ret.groups = 2
    /\ \E x \in Cells : \E y \in Cells :
           /\ ~args.grid[x] /\ ~args.grid[y]
           /\ y[1] = x[1] + 1 /\ y[2] = x[2] + 1
           /\ args.grid[<<x[1] + 1, x[2]>>] /\ args.grid[<<x[1], x[2] + 1>>]

\* ---- find_best_move and get_top_moves on one solver, one after the other
\* the boards that are full but for the first cells of the window, with and
\* without the isolated cells, and the piece lists of the repeated calls and
\* the empty list
AgreeWindows == { {}, {<<0, 0>>}, {<<0, 0>>, <<1, 0>>}, {<<0, 0>>, <<0, 1>>, <<1, 0>>} }
AgreeGrids == { GridOf(Cells \ (E \cup B)) : E \in AgreeWindows, B \in {{}, IsolatedCells} }
AgreePieces == CallsPieces \cup { << >> }

AgreeInit ==
    /\ grid \in AgreeGrids
    /\ pieces \in AgreePieces
    /\ cells = <<>>
    /\ solver = NoSolver
    /\ op = "none"
    /\ args = NoArgs
    /\ ret = NoRet
    /\ alloc = 1
    /\ gridtype = BoolGrid
    /\ budget = 2

AgreeNext ==
    \/ NewSolver
    \/ FindBestMove
    \/ GetTopMoves

AgreeSpec == AgreeInit /\ [][AgreeNext]_vars

\* ---- the solver given one piece in each of its presentations
\* The grid is full but for a hole that has the form of l_4_1 turned or
\* mirrored; the piece list holds one piece: l_4_1 turned or mirrored one of
\* the 8 ways, the single cell or the domino.
PieceNamed(n) ==
    STANDARD_PIECES[CHOOSE e \in 1 .. Len(STANDARD_PIECES) : STANDARD_PIECES[e].name = n].cells

ImagesOf(shape) ==
    { _normalize([i \in 1 .. Len(shape) |->
          LET c == shape[i]
          IN  CASE k = 1 -> <<c[1], c[2]>>
                [] k = 2 -> <<c[2], -c[1]>>
                [] k = 3 -> <<-c[1], -c[2]>>
                [] k = 4 -> <<-c[2], c[1]>>
                [] k = 5 -> <<c[1], -c[2]>>
                [] k = 6 -> <<-c[2], -c[1]>>
                [] k = 7 -> <<-c[1], c[2]>>
                [] k = 8 -> <<c[2], c[1]>>]) : k \in 1 .. 8 }

HoleAnchors == {<<0, 0>>, <<3, 4>>}
HoleGrids ==
    { GridOf(Cells \ {<<s[i][1] + d[1], s[i][2] + d[2]>> : i \in 1 .. Len(s)}) :
        s \in ImagesOf(PieceNamed("l_4_1")), d \in HoleAnchors }
PresentedPieces ==
    ImagesOf(PieceNamed("l_4_1")) \cup {PieceNamed("single"), PieceNamed("domino_h")}

PresentInit ==
    /\ grid \in HoleGrids
    /\ pieces \in { <<p>> : p \in PresentedPieces }
    /\ cells = <<>>
    /\ solver = NoSolver
    /\ op = "none"
    /\ args = NoArgs
    /\ ret = NoRet
    /\ alloc = 1
    /\ gridtype = BoolGrid
    /\ budget = 1

PresentNext ==
    \/ NewSolver
    \/ FindBestMove

PresentSpec == PresentInit /\ [][PresentNext]_vars

\* ---- the solver on crowded boards, where a piece can complete a line
\* A board with twelve empty cells, on which the domino lying at (3, 6)
\* completes column 6 and the domino standing at (1, 4) completes nothing,
\* and the boards that have some of the empty cells far from both occupied;
\* the piece list holds the domino, the single cell, or both.
CrowdedGaps ==
    { <<0, 7>>, <<1, 1>>, <<1, 4>>, <<2, 2>>, <<2, 4>>, <<3, 0>>,
      <<3, 6>>, <<3, 7>>, <<4, 4>>, <<5, 2>>, <<6, 5>>, <<7, 3>> }
FarGaps == { <<1, 1>>, <<2, 2>>, <<5, 2>>, <<6, 5>>, <<7, 3>> }
CrowdedGrids == { GridOf(Cells \ (CrowdedGaps \ F)) : F \in SUBSET FarGaps }
CrowdedPieces ==
    { << PieceNamed("domino_h") >>,
      << PieceNamed("single") >>,
      << PieceNamed("single"), PieceNamed("domino_h") >> }

CrowdedInit ==
    /\ grid \in CrowdedGrids
    /\ pieces \in CrowdedPieces
    /\ cells = <<>>
    /\ solver = NoSolver
    /\ op = "none"
    /\ args = NoArgs
    /\ ret = NoRet
    /\ alloc = 1
    /\ gridtype = BoolGrid
    /\ budget = 1

CrowdedNext ==
    \/ NewSolver
    \/ FindBestMove

CrowdedSpec == CrowdedInit /\ [][CrowdedNext]_vars

\* =================================================================
\* Properties of the shapes, continued (checked under ShapeSpec)
\* =================================================================

\* C23: for a non-empty shape, get_all_orientations returns a non-empty list
\* that starts with the shape itself, whose elements are all in normalized
\* form with as many cells as the shape, no two of them with equal cell
\* lists; a second call returns the same cell lists in the same order.
C23_OrientationList ==
    (op = "get_all_orientations" /\ args.shape # << >>) =>
        /\ Len(ret) >= 1
        /\ ret[1] = args.shape
        /\ \A i \in 1 .. Len(ret) :
               /\ IsCanonical(ret[i])
               /\ Len(ret[i]) = Len(args.shape)
        /\ \A i \in 1 .. Len(ret) : \A j \in 1 .. Len(ret) : ret[i] = ret[j] => i = j
        /\ get_all_orientations(args.shape) = ret

C23_Witness ==
    /\ op = "get_all_orientations"
    /\ Len(args.shape) >= 4
    /\ cells # args.shape
    /\ Len(ret) = 7
    /\ ret[1] = args.shape

\* the cells of a shape, each moved from (r, c) to (c, -r)
TurnedClockwise(shape) == [i \in 1 .. Len(shape) |-> <<shape[i][2], -shape[i][1]>>]

\* C24: rotate_90 is a clockwise quarter turn: the result is the normalized
\* list of the images (c, -r) of the shape's cells (r, c); the horizontal
\* domino becomes the vertical domino; four quarter turns give back the
\* shape's cell list.
C24_QuarterTurn ==
    op = "rotate_90" =>
        /\ args.shape = << >> => ret = << >>
        /\ args.shape # << >> =>
               /\ IsCanonical(ret)
               /\ Len(ret) = Len(args.shape)
               /\ SameBagUpToTranslation(TurnedClockwise(args.shape), ret)
        /\ args.shape = HorizontalDomino => ret = VerticalDomino
        /\ rotate_90(rotate_90(rotate_90(ret))) = args.shape

C24_Witness ==
    /\ op = "rotate_90"
    /\ Len(args.shape) >= 3
    /\ ret # args.shape
    /\ rotate_90(ret) # args.shape
    /\ rotate_90(rotate_90(rotate_90(ret))) = args.shape

\* =================================================================
\* Presentations of a piece (checked under PresentSpec)
\* =================================================================

\* the piece list with piece i replaced by v
Presented(ps, i, v) == [ps EXCEPT ![i] = v]

\* the result of find_best_move of a solver made of g and ps
BestMoveOn(g, ps) == BestOf(AllMoves(g, 2, 2, ps).moves)

\* C25: replacing a piece by any rotation or reflection of itself leaves the
\* outcome of find_best_move (None or a move) and the score of the returned
\* move unchanged.
C25_PresentationInvariant ==
    op = "find_best_move" =>
        \A i \in 1 .. Len(solver.pieces) :
            \A v \in DihedralImages(solver.pieces[i]) :
                LET other == BestMoveOn(grid, Presented(solver.pieces, i, v))
                IN  /\ IsNone(other) <=> IsNone(ret.move)
                    /\ ~IsNone(other) => other.score = ret.move.score

\* =================================================================
\* The two searches of one solver (checked under AgreeSpec)
\* =================================================================

\* what a caller can compare of two Move objects
SameMove(a, b) ==
    /\ a.piece_index = b.piece_index
    /\ a.position = b.position
    /\ a.piece_cells = b.piece_cells
    /\ a.lines_cleared = b.lines_cleared
    /\ a.score = b.score
    /\ a.resulting_grid = b.resulting_grid

Agrees(best, top) ==
    /\ top = << >> <=> IsNone(best)
    /\ top # << >> => (Len(top) = 1 /\ SameMove(top[1], best))

\* C26: on one solver, get_top_moves(1) is empty exactly when find_best_move
\* returns None, and otherwise its only element has the piece index, the
\* position, the piece cells, the lines cleared, the score and the resulting
\* grid of the move find_best_move returns; in either order of the two calls.
C26_Step ==
    /\ (op = "find_best_move" /\ op' = "get_top_moves" /\ args'.n = 1)
           => Agrees(ret.move, ret'.moves)
    /\ (op = "get_top_moves" /\ args.n = 1 /\ op' = "find_best_move")
           => Agrees(ret'.move, ret.moves)

C26_BestIsTopOne == [][C26_Step]_vars

\* get_top_moves(1) after a find_best_move that chose among several
\* candidates, not the first of them
C26_Witness ==
    /\ op = "get_top_moves"
    /\ args.n = 1
    /\ budget = 0
    /\ ~IsNone(solver.best_move)
    /\ Len(ret.all_moves) >= 3
    /\ Len(ret.moves) = 1
    /\ SameMove(ret.moves[1], solver.best_move)
    /\ ~SameMove(ret.all_moves[1], solver.best_move)

\* get_top_moves(1) after a find_best_move that returned None
C26_WitnessNone ==
    /\ op = "get_top_moves"
    /\ args.n = 1
    /\ budget = 0
    /\ IsNone(solver.best_move)
    /\ solver.pieces # << >>
    /\ ret.moves = << >>

\* =================================================================
\* The returned moves (checked under Spec)
\* =================================================================

\* a Move agrees with the grid g and the piece list ps of its solver
ConsistentMove(m, g, ps) ==
    /\ m.piece_index \in 0 .. (Len(ps) - 1)
    /\ m.piece_cells \in Range(get_all_orientations(ps[m.piece_index + 1]))
    /\ can_place_piece(g, m.piece_cells, m.position)
    /\ LET placed == place_piece(g, m.piece_cells, m.position)
           cleared == clear_complete_lines(placed.grid)
       IN  /\ ~placed.err
           /\ m.resulting_grid = cleared.grid
           /\ m.lines_cleared = cleared.lines
    /\ m.score = evaluate_position(m.resulting_grid, m.lines_cleared)

\* C27: every Move returned by find_best_move or get_top_moves is consistent
\* with the solver's grid g: its piece_cells is an orientation of
\* pieces[piece_index], the piece can be placed on g at its position, its
\* resulting grid and lines cleared are those of clear_complete_lines on
\* place_piece of g, and its score is evaluate_position of the two.
C27_MovesConsistent ==
    op \in {"find_best_move", "get_top_moves"} =>
        LET moves == ReturnedMoves(op, ret)
        IN  \A k \in 1 .. Len(moves) : ConsistentMove(moves[k], solver.grid, solver.pieces)

C27_Witness ==
    /\ op = "get_top_moves"
    /\ Len(ret.moves) >= 2
    /\ \E k \in 1 .. Len(ret.moves) : ret.moves[k].lines_cleared > 0
    /\ \E k \in 1 .. Len(ret.moves) :
           ret.moves[k].piece_cells # solver.pieces[ret.moves[k].piece_index + 1]
    /\ \A k \in 1 .. Len(ret.moves) :
           ConsistentMove(ret.moves[k], solver.grid, solver.pieces)

\* =================================================================
\* Properties of the utility functions, continued (checked under UtilSpec)
\* =================================================================

\* C28: clear_complete_lines occupies no cell and touches no cell outside
\* the complete lines: a cell empty in g is empty in the result, a cell lying
\* neither in a fully occupied row of g nor in a fully occupied column of g
\* has in the result the value it has in g, and g is left as it was.
C28_ClearOnlyClears ==
    op = "clear_complete_lines" =>
        /\ \A x \in Cells : ~args.grid[x] => ~ret.grid[x]
        /\ \A x \in Cells :
               (x[1] \notin FullRows(args.grid) /\ x[2] \notin FullCols(args.grid))
                   => ret.grid[x] = args.grid[x]
        /\ grid = args.grid

C28_Witness ==
    /\ op = "clear_complete_lines"
    /\ FullRows(args.grid) # {}
    /\ FullCols(args.grid) # {}
    /\ ret.grid # args.grid
    /\ grid = args.grid
    /\ \E x \in Cells :
           /\ x[1] \notin FullRows(args.grid)
           /\ x[2] \notin FullCols(args.grid)
           /\ args.grid[x]
           /\ ret.grid[x]

\* =================================================================
\* Line clears and the score (checked under CrowdedSpec)
\* =================================================================

\* C29: if at least one candidate placement clears one or more lines, the
\* move returned by find_best_move has lines_cleared >= 1.
C29_ClearsDominate ==
    op = "find_best_move" =>
        ( (\E k \in 1 .. Len(ret.all_moves) : ret.all_moves[k].lines_cleared >= 1)
              => (~IsNone(ret.move) /\ ret.move.lines_cleared >= 1) )

\* =================================================================
\* The catalog lookup (checked under MatchSpec)
\* =================================================================

\* C30: for every name n of STANDARD_PIECES, find_matching_piece on the cells
\* of STANDARD_PIECES[n] returns n.
C30_LookupRoundTrip ==
    op = "find_matching_piece" =>
        \A e \in 1 .. Len(STANDARD_PIECES) :
            args.cells = STANDARD_PIECES[e].cells => ret = STANDARD_PIECES[e].name

====
